---- MODULE Spec2Model ----
(***************************************************************************)
(* Model of the video upscaling scripts.                                   *)
(*                                                                         *)
(*   video_upscaling.py  main(): load_config, configure_logging,           *)
(*                       get_interpolation_method, upscale_video,          *)
(*                       extract_and_add_audio, cleanup_temp_file          *)
(*   main.py             upscale_video_with_audio (scale-factor pipeline)  *)
(*                                                                         *)
(* Library calls (cv2, moviepy, psutil, os) are the environment: whether   *)
(* a file opens, how many frames a capture delivers, what psutil reports   *)
(* and whether os.remove succeeds are inputs, drawn from small sets.       *)
(* Frame rates are kept in hundredths of a frame per second (2997 is       *)
(* 29.97 fps), scale factors in halves (3 is 1.5).                         *)
(***************************************************************************)
EXTENDS Integers, Sequences, FiniteSets, TLC

VARIABLES
    pc,             \* position of the running script
    stage,          \* Configured, Resampling, Reattaching, CleaningUp, Done, Failed
    trace,          \* the stages entered so far, in order
    exc,            \* the exception in flight ("none" when there is none)
    failedIn,       \* the stage in which an exception was raised ("none" if none)
    exitCode,       \* process exit code; -1 while the process runs
    log,            \* records written through logging / print
    cfgFile,        \* config.json on disk: "ok", "missing", "badjson"
    method,         \* config['interpolation_method']
    target,         \* config['target_resolution'] as <<width, height>>
    chunk_size,     \* upscale_video's chunk_size parameter
    scale,          \* main.py's scale_factor, in halves
    interp,         \* the cv2 interpolation flag resolved from method
    srcOpenable,    \* whether cv2.VideoCapture can open the input
    srcFrames,      \* number of frames the source delivers
    srcFps,         \* CAP_PROP_FPS of the source, in hundredths
    srcSize,        \* <<CAP_PROP_FRAME_WIDTH, CAP_PROP_FRAME_HEIGHT>>
    capture,        \* "none", "opened", "not_opened", "released"
    writer,         \* the cv2.VideoWriter: [state, fps, size]
    readCount,      \* frames handed out by video_capture.read()
    frame,          \* the frame last read
    written,        \* frames passed to video_writer.write(), in order
    frame_counter,  \* upscale_video's frame_counter
    memChecks,      \* calls of check_memory_limit
    gcCalls,        \* calls of gc.collect
    mem,            \* the last psutil.virtual_memory() sample
    fs,             \* the paths that exist on disk
    fs0,            \* the paths that existed when the run started
    clips,          \* the paths held open by moviepy VideoFileClip objects
    calls,          \* cleanup harness: calls of cleanup_temp_file made
    last,           \* cleanup harness: the last call and its outcome
    prev            \* cleanup harness: the call before the last

vars == <<pc, stage, trace, exc, failedIn, exitCode, log, cfgFile, method,
          target, chunk_size, scale, interp, srcOpenable, srcFrames, srcFps,
          srcSize, capture, writer, readCount, frame, written, frame_counter,
          memChecks, gcCalls, mem, fs, fs0, clips, calls, last, prev>>

inputVars == <<cfgFile, method, target, chunk_size, scale, srcOpenable,
               srcFrames, srcFps, srcSize, fs0>>
harnessVars == <<calls, last, prev>>
memVars == <<memChecks, gcCalls, mem>>
loopVars == <<readCount, frame, written, frame_counter>>

----------------------------------------------------------------------------
(* Bounds *)

MaxFrames == 4      \* longest source, in frames
MaxChunk == 3       \* largest chunk_size tried
MemTotal == 20      \* mem.total, in arbitrary units
MaxAvail == 3       \* largest mem.available sampled
MaxCalls == 3       \* cleanup harness: calls of cleanup_temp_file

TempPath == "temp_upscaled_video.mp4"
OutputPath == "output_video"
OtherPath == "other_file"
ScaleTempPath == "temp_video.mp4"
Paths == {TempPath, OutputPath, OtherPath}

ValidMethods == {"INTER_LINEAR", "INTER_NEAREST", "INTER_CUBIC", "INTER_LANCZOS4"}
Methods == ValidMethods \cup {"INTER_AREA"}
SourceSizes == {<<2, 1>>, <<3, 2>>}
TargetSizes == {<<4, 2>>, <<3, 2>>}
FpsValues == {2400, 2997}
ScaleHalves == {2, 3, 4}

NoFrame == [idx |-> 0, size |-> <<0, 0>>, interp |-> "raw"]
NoWriter == [state |-> "none", fps |-> 0, size |-> <<0, 0>>]
NoSample == [available |-> 0, total |-> 0, frames |-> 0]
NoCall == [path |-> "none", before |-> {}, outcome |-> "none"]

StageOrder == <<"Configured", "Resampling", "Reattaching", "CleaningUp">>

Entry(level, msg) == [level |-> level, msg |-> msg]

----------------------------------------------------------------------------
(* Pure helpers *)

\* get_interpolation_method: the cv2 flag for a configured name, or ValueError.
get_interpolation_method_default(method_name) ==
    IF method_name = "INTER_NEAREST" THEN [raises |-> "none", value |-> "cv2.INTER_NEAREST"]
    ELSE IF method_name = "INTER_CUBIC" THEN [raises |-> "none", value |-> "cv2.INTER_CUBIC"]
    ELSE IF method_name = "INTER_LANCZOS4" THEN [raises |-> "none", value |-> "cv2.INTER_LANCZOS4"]
    ELSE [raises |-> "none", value |-> "cv2.INTER_LINEAR"]

get_interpolation_method(method_name) ==
    IF method_name = "INTER_LINEAR" THEN [raises |-> "none", value |-> "cv2.INTER_LINEAR"]
    ELSE IF method_name = "INTER_NEAREST" THEN [raises |-> "none", value |-> "cv2.INTER_NEAREST"]
    ELSE IF method_name = "INTER_CUBIC" THEN [raises |-> "none", value |-> "cv2.INTER_CUBIC"]
    ELSE IF method_name = "INTER_LANCZOS4" THEN [raises |-> "none", value |-> "cv2.INTER_LANCZOS4"]
    ELSE [raises |-> "ValueError", value |-> "none"]

\* check_memory_limit's test: mem.available < 0.1 * mem.total.
LowMemory_Percent(available, total) == 100 * available < total

LowMemory(available, total) == 10 * available < total

\* the chunk test of upscale_video: frame_counter % chunk_size == 0.
ChunkBoundary_Before(counter, chunk) == (counter - 1) % chunk = 0

ChunkBoundary(counter, chunk) == counter % chunk = 0

\* cv2.resize(frame, size, interpolation=kernel)
Resize_Identity(f, size, kernel) == [f EXCEPT !.interp = kernel]

Resize(f, size, kernel) == [f EXCEPT !.size = size, !.interp = kernel]

\* cleanup_temp_file(temp_file_path) on file system fsIn; removeOk is whether
\* os.remove succeeds. Returns the file system after, the records logged and
\* the exception that leaves the function.
cleanup_temp_file_NoHandler(fsIn, temp_file_path, removeOk) ==
    IF temp_file_path \in fsIn
    THEN IF removeOk
         THEN [fs |-> fsIn \ {temp_file_path}, outcome |-> "removed",
               log |-> <<Entry("INFO", "temp_removed")>>, raises |-> "none"]
         ELSE [fs |-> fsIn, outcome |-> "exception",
               log |-> << >>, raises |-> "OSError"]
    ELSE [fs |-> fsIn, outcome |-> "warning",
          log |-> <<Entry("WARNING", "temp_missing")>>, raises |-> "none"]

cleanup_temp_file(fsIn, temp_file_path, removeOk) ==
    IF temp_file_path \in fsIn
    THEN IF removeOk
         THEN [fs |-> fsIn \ {temp_file_path}, outcome |-> "removed",
               log |-> <<Entry("INFO", "temp_removed")>>, raises |-> "none"]
         ELSE [fs |-> fsIn, outcome |-> "exception",
               log |-> <<Entry("ERROR", "cleanup_error")>>, raises |-> "none"]
    ELSE [fs |-> fsIn, outcome |-> "warning",
          log |-> <<Entry("WARNING", "temp_missing")>>, raises |-> "none"]

\* int(x) of a non-negative frame rate kept in hundredths.
IntFps(f) == (f \div 100) * 100

\* int(dimension * scale_factor), the scale factor kept in halves.
ScaledDim(d, s) == (d * s) \div 2

----------------------------------------------------------------------------
(* Initial states *)

InitCommon ==
    /\ stage = "Configured"
    /\ trace = <<"Configured">>
    /\ exc = "none"
    /\ failedIn = "none"
    /\ exitCode = -1
    /\ log = << >>
    /\ interp = "none"
    /\ capture = "none"
    /\ writer = NoWriter
    /\ readCount = 0
    /\ frame = NoFrame
    /\ written = << >>
    /\ frame_counter = 0
    /\ memChecks = 0
    /\ gcCalls = 0
    /\ mem = NoSample
    /\ clips = {}
    /\ calls = 0
    /\ last = NoCall
    /\ prev = NoCall

\* video_upscaling.py started as a script: any config.json, any source, and
\* possibly an intermediate or output file left by an earlier run.
Init ==
    /\ InitCommon
    /\ pc = "load_config"
    /\ cfgFile \in {"ok", "missing", "badjson"}
    /\ method \in Methods
    /\ target \in TargetSizes
    /\ chunk_size \in 1..MaxChunk
    /\ scale = 2
    /\ srcOpenable \in BOOLEAN
    /\ srcFrames \in 0..MaxFrames
    /\ srcFps \in FpsValues
    /\ srcSize \in SourceSizes
    /\ fs0 \in SUBSET {TempPath, OutputPath}
    /\ fs = fs0

----------------------------------------------------------------------------
(* video_upscaling.py *)

Raise(e, handler) ==
    /\ exc' = e
    /\ failedIn' = IF failedIn = "none" THEN stage ELSE failedIn
    /\ pc' = handler

\* main, line 132: config = load_config('config.json')
LoadConfig ==
    /\ pc = "load_config"
    /\ IF cfgFile = "ok"
       THEN /\ pc' = "configure_logging"
            /\ UNCHANGED <<exc, failedIn>>
       ELSE Raise("Exception", "main_except")
    /\ UNCHANGED <<stage, trace, exitCode, log, interp, capture, writer, fs,
                   clips, inputVars, harnessVars, memVars, loopVars>>

\* main, line 134: configure_logging(config['log_dir'])
ConfigureLogging ==
    /\ pc = "configure_logging"
    /\ log' = Append(log, Entry("INFO", "logging_initialized"))
    /\ pc' = "get_interpolation_method"
    /\ UNCHANGED <<stage, trace, exc, failedIn, exitCode, interp, capture,
                   writer, fs, clips, inputVars, harnessVars, memVars, loopVars>>

\* main, line 136: interpolation_method = get_interpolation_method(...)
GetInterpolationMethod ==
    /\ pc = "get_interpolation_method"
    /\ LET r == get_interpolation_method(method) IN
       IF r.raises = "none"
       THEN /\ interp' = r.value
            /\ pc' = "upscale_video"
            /\ UNCHANGED <<exc, failedIn>>
       ELSE /\ Raise(r.raises, "main_except")
            /\ UNCHANGED interp
    /\ UNCHANGED <<stage, trace, exitCode, log, capture, writer, fs, clips,
                   inputVars, harnessVars, memVars, loopVars>>

\* upscale_video, lines 63-65: open the capture, fail if it did not open.
OpenCapture_NoCheck ==
    /\ pc = "upscale_video"
    /\ stage' = "Resampling"
    /\ trace' = Append(trace, "Resampling")
    /\ capture' = IF srcOpenable THEN "opened" ELSE "not_opened"
    /\ pc' = "create_writer"
    /\ UNCHANGED <<exc, failedIn>>
    /\ UNCHANGED <<exitCode, log, interp, writer, fs, clips, inputVars,
                   harnessVars, memVars, loopVars>>

OpenCapture ==
    /\ pc = "upscale_video"
    /\ stage' = "Resampling"
    /\ trace' = Append(trace, "Resampling")
    /\ IF srcOpenable
       THEN /\ capture' = "opened"
            /\ pc' = "create_writer"
            /\ UNCHANGED <<exc, failedIn>>
       ELSE /\ capture' = "not_opened"
            /\ exc' = "Exception"
            /\ failedIn' = "Resampling"
            /\ pc' = "upscale_except"
    /\ UNCHANGED <<exitCode, log, interp, writer, fs, clips, inputVars,
                   harnessVars, memVars, loopVars>>

\* upscale_video, lines 67-78: read the properties, create the writer on the
\* intermediate path with the source's fps and the target resolution.
CreateWriter ==
    /\ pc = "create_writer"
    /\ writer' = [state |-> "open", fps |-> srcFps, size |-> target]
    /\ fs' = fs \cup {TempPath}
    /\ log' = log \o <<Entry("INFO", "original_resolution"),
                       Entry("INFO", "upscaling_to")>>
    /\ frame_counter' = 0
    /\ pc' = "read"
    /\ UNCHANGED <<stage, trace, exc, failedIn, exitCode, interp, capture,
                   clips, inputVars, harnessVars, memVars, readCount, frame,
                   written>>

\* upscale_video, lines 80-82: ret, frame = video_capture.read()
ReadFrame ==
    /\ pc = "read"
    /\ IF capture = "opened" /\ readCount < srcFrames
       THEN /\ readCount' = readCount + 1
            /\ frame' = [idx |-> readCount + 1, size |-> srcSize, interp |-> "raw"]
            /\ pc' = "resize"
       ELSE /\ pc' = "release"
            /\ UNCHANGED <<readCount, frame>>
    /\ UNCHANGED <<stage, trace, exc, failedIn, exitCode, log, interp, capture,
                   writer, fs, clips, inputVars, harnessVars, memVars, written,
                   frame_counter>>

\* upscale_video, lines 84-88: resize, write, count; a cv2 error aborts.
ResizeWrite ==
    /\ pc = "resize"
    /\ \E libOk \in BOOLEAN :
         IF libOk
         THEN /\ written' = Append(written, Resize(frame, target, interp))
              /\ frame_counter' = frame_counter + 1
              /\ pc' = IF ChunkBoundary(frame_counter + 1, chunk_size)
                       THEN "check_memory" ELSE "read"
              /\ UNCHANGED <<exc, failedIn>>
         ELSE /\ Raise("cv2.error", "upscale_except")
              /\ UNCHANGED <<written, frame_counter>>
    /\ UNCHANGED <<stage, trace, exitCode, log, interp, capture, writer, fs,
                   clips, inputVars, harnessVars, memVars, readCount, frame>>

\* upscale_video, lines 89-91 with check_memory_limit, lines 41-45.
CheckMemory ==
    /\ pc = "check_memory"
    /\ \E available \in 0..MaxAvail :
         /\ mem' = [available |-> available, total |-> MemTotal,
                     frames |-> frame_counter]
         /\ memChecks' = memChecks + 1
         /\ IF LowMemory(available, MemTotal)
            THEN /\ log' = log \o <<Entry("INFO", "processed_frames"),
                                    Entry("WARNING", "low_memory")>>
                 /\ Raise("MemoryError", "upscale_except")
                 /\ UNCHANGED gcCalls
            ELSE /\ log' = Append(log, Entry("INFO", "processed_frames"))
                 /\ gcCalls' = gcCalls + 1
                 /\ pc' = "read"
                 /\ UNCHANGED <<exc, failedIn>>
    /\ UNCHANGED <<stage, trace, exitCode, interp, capture, writer, fs, clips,
                   inputVars, harnessVars, loopVars>>

\* upscale_video, lines 93-95: release both handles and return.
Release_KeepWriter ==
    /\ pc = "release"
    /\ capture' = "released"
    /\ log' = Append(log, Entry("INFO", "upscaling_completed"))
    /\ pc' = "extract_and_add_audio"
    /\ UNCHANGED <<stage, trace, exc, failedIn, exitCode, interp, writer, fs,
                   clips, inputVars, harnessVars, memVars, loopVars>>

Release ==
    /\ pc = "release"
    /\ capture' = "released"
    /\ writer' = [writer EXCEPT !.state = "released"]
    /\ log' = Append(log, Entry("INFO", "upscaling_completed"))
    /\ pc' = "extract_and_add_audio"
    /\ UNCHANGED <<stage, trace, exc, failedIn, exitCode, interp, fs, clips,
                   inputVars, harnessVars, memVars, loopVars>>

\* upscale_video, lines 97-102: log the exception and raise it again.
UpscaleExcept_Swallow ==
    /\ pc = "upscale_except"
    /\ log' = Append(log, Entry("ERROR", IF exc = "MemoryError"
                                         THEN "memory_error_encountered"
                                         ELSE "error_processing_video"))
    /\ exc' = "none"
    /\ pc' = "extract_and_add_audio"
    /\ UNCHANGED <<stage, trace, failedIn, exitCode, interp, capture, writer,
                   fs, clips, inputVars, harnessVars, memVars, loopVars>>

UpscaleExcept ==
    /\ pc = "upscale_except"
    /\ log' = Append(log, Entry("ERROR", IF exc = "MemoryError"
                                         THEN "memory_error_encountered"
                                         ELSE "error_processing_video"))
    /\ pc' = "main_except"
    /\ UNCHANGED <<stage, trace, exc, failedIn, exitCode, interp, capture,
                   writer, fs, clips, inputVars, harnessVars, memVars, loopVars>>

\* extract_and_add_audio, lines 107-108: original_clip = VideoFileClip(input_path)
OpenOriginalClip ==
    /\ pc = "extract_and_add_audio"
    /\ stage' = "Reattaching"
    /\ trace' = Append(trace, "Reattaching")
    /\ \E libOk \in BOOLEAN :
         IF libOk
         THEN /\ clips' = clips \cup {"input_video"}
              /\ pc' = "open_upscaled_clip"
              /\ UNCHANGED <<exc, failedIn>>
         ELSE /\ exc' = "Exception"
              /\ failedIn' = IF failedIn = "none" THEN "Reattaching" ELSE failedIn
              /\ pc' = "audio_except"
              /\ UNCHANGED clips
    /\ UNCHANGED <<exitCode, log, interp, capture, writer, fs, inputVars,
                   harnessVars, memVars, loopVars>>

\* extract_and_add_audio, lines 109-110: upscaled_clip = VideoFileClip(temp)
OpenUpscaledClip ==
    /\ pc = "open_upscaled_clip"
    /\ \E libOk \in BOOLEAN :
         IF libOk /\ TempPath \in fs
         THEN /\ clips' = clips \cup {TempPath}
              /\ pc' = "write_videofile"
              /\ UNCHANGED <<exc, failedIn>>
         ELSE /\ Raise("Exception", "audio_except")
              /\ UNCHANGED clips
    /\ UNCHANGED <<stage, trace, exitCode, log, interp, capture, writer, fs,
                   inputVars, harnessVars, memVars, loopVars>>

\* extract_and_add_audio, lines 112-113: final_clip.write_videofile(...)
WriteVideofile ==
    /\ pc = "write_videofile"
    /\ \E libOk \in BOOLEAN :
         IF libOk
         THEN /\ fs' = fs \cup {OutputPath}
              /\ log' = Append(log, Entry("INFO", "audio_added"))
              /\ pc' = "cleanup_temp_file"
              /\ UNCHANGED <<exc, failedIn>>
         ELSE /\ Raise("Exception", "audio_except")
              /\ UNCHANGED <<fs, log>>
    /\ UNCHANGED <<stage, trace, exitCode, interp, capture, writer, clips,
                   inputVars, harnessVars, memVars, loopVars>>

\* extract_and_add_audio, lines 114-116: log the exception and raise it again.
AudioExcept_Swallow ==
    /\ pc = "audio_except"
    /\ log' = Append(log, Entry("ERROR", "error_adding_audio"))
    /\ exc' = "none"
    /\ pc' = "cleanup_temp_file"
    /\ UNCHANGED <<stage, trace, failedIn, exitCode, interp, capture, writer,
                   fs, clips, inputVars, harnessVars, memVars, loopVars>>

AudioExcept ==
    /\ pc = "audio_except"
    /\ log' = Append(log, Entry("ERROR", "error_adding_audio"))
    /\ pc' = "main_except"
    /\ UNCHANGED <<stage, trace, exc, failedIn, exitCode, interp, capture,
                   writer, fs, clips, inputVars, harnessVars, memVars, loopVars>>

\* main, line 143: cleanup_temp_file(temp_output_path)
Cleanup ==
    /\ pc = "cleanup_temp_file"
    /\ stage' = "CleaningUp"
    /\ trace' = Append(trace, "CleaningUp")
    /\ \E removeOk \in BOOLEAN :
         LET r == cleanup_temp_file(fs, TempPath, removeOk) IN
         /\ fs' = r.fs
         /\ log' = log \o r.log
         /\ prev' = last
         /\ last' = [path |-> TempPath, before |-> fs, outcome |-> r.outcome]
         /\ calls' = calls + 1
         /\ exc' = r.raises
         /\ failedIn' = IF r.outcome = "exception" THEN "CleaningUp" ELSE failedIn
         /\ pc' = IF r.raises = "none" THEN "main_return" ELSE "main_except"
    /\ UNCHANGED <<exitCode, interp, capture, writer, clips, inputVars,
                   memVars, loopVars>>

\* main falls off the end of its try block: the process exits with code 0.
MainReturn ==
    /\ pc = "main_return"
    /\ pc' = "done"
    /\ stage' = "Done"
    /\ exitCode' = 0
    /\ UNCHANGED <<trace, exc, failedIn, log, interp, capture, writer, fs,
                   clips, inputVars, harnessVars, memVars, loopVars>>

\* main, lines 145-150: both handlers log and call sys.exit(1).
MainExcept_Cleanup ==
    /\ pc = "main_except"
    /\ log' = Append(log, Entry("ERROR", IF exc = "MemoryError"
                                         THEN "memory_error"
                                         ELSE "failed_to_complete"))
    /\ fs' = fs \ {TempPath}
    /\ exitCode' = 1
    /\ pc' = "failed"
    /\ stage' = "Failed"
    /\ UNCHANGED <<trace, exc, failedIn, interp, capture, writer, clips,
                   inputVars, harnessVars, memVars, loopVars>>

MainExcept ==
    /\ pc = "main_except"
    /\ log' = Append(log, Entry("ERROR", IF exc = "MemoryError"
                                         THEN "memory_error"
                                         ELSE "failed_to_complete"))
    /\ exitCode' = 1
    /\ pc' = "failed"
    /\ stage' = "Failed"
    /\ UNCHANGED <<trace, exc, failedIn, interp, capture, writer, fs, clips,
                   inputVars, harnessVars, memVars, loopVars>>

Next ==
    \/ LoadConfig
    \/ ConfigureLogging
    \/ GetInterpolationMethod
    \/ OpenCapture
    \/ CreateWriter
    \/ ReadFrame
    \/ ResizeWrite
    \/ CheckMemory
    \/ Release
    \/ UpscaleExcept
    \/ OpenOriginalClip
    \/ OpenUpscaledClip
    \/ WriteVideofile
    \/ AudioExcept
    \/ Cleanup
    \/ MainReturn
    \/ MainExcept

Spec == Init /\ [][Next]_vars

----------------------------------------------------------------------------
(* cleanup_temp_file called repeatedly, on any path and any file system *)

InitCleanup ==
    /\ InitCommon
    /\ pc = "harness"
    /\ cfgFile = "ok"
    /\ method = "INTER_LINEAR"
    /\ target = <<0, 0>>
    /\ chunk_size = 1
    /\ scale = 2
    /\ srcOpenable = TRUE
    /\ srcFrames = 0
    /\ srcFps = 0
    /\ srcSize = <<0, 0>>
    /\ fs0 \in SUBSET Paths
    /\ fs = fs0

CleanupCall ==
    /\ pc = "harness"
    /\ calls < MaxCalls
    /\ \E p \in Paths, removeOk \in BOOLEAN :
         LET r == cleanup_temp_file(fs, p, removeOk) IN
         /\ fs' = r.fs
         /\ log' = log \o r.log
         /\ exc' = r.raises
         /\ prev' = last
         /\ last' = [path |-> p, before |-> fs, outcome |-> r.outcome]
         /\ calls' = calls + 1
         /\ pc' = IF r.raises = "none" THEN "harness" ELSE "harness_raised"
    /\ UNCHANGED <<stage, trace, failedIn, exitCode, interp, capture, writer,
                   clips, inputVars, memVars, loopVars>>

NextCleanup == CleanupCall

SpecCleanup == InitCleanup /\ [][NextCleanup]_vars

----------------------------------------------------------------------------
(* main.py: upscale_video_with_audio(input_path, output_path, scale_factor) *)

InitScale ==
    /\ InitCommon
    /\ pc = "s_capture"
    /\ cfgFile = "ok"
    /\ method = "INTER_CUBIC"
    /\ target = <<0, 0>>
    /\ chunk_size = 1
    /\ scale \in ScaleHalves
    /\ srcOpenable \in BOOLEAN
    /\ srcFrames \in 0..MaxFrames
    /\ srcFps \in FpsValues
    /\ srcSize \in SourceSizes
    /\ fs0 \in SUBSET {ScaleTempPath, OutputPath}
    /\ fs = fs0

\* an exception nothing catches: traceback, exit code 1
Uncaught(e) ==
    /\ exc' = e
    /\ pc' = "failed"
    /\ exitCode' = 1

\* line 6: cap = cv2.VideoCapture(input_path); isOpened is not looked at
ScaleOpenCapture ==
    /\ pc = "s_capture"
    /\ capture' = IF srcOpenable THEN "opened" ELSE "not_opened"
    /\ pc' = "s_writer"
    /\ UNCHANGED <<stage, trace, exc, failedIn, exitCode, log, interp, writer,
                   fs, clips, inputVars, harnessVars, memVars, loopVars>>

\* lines 9-15: width, height, fps = int(...); the writer on temp_video.mp4.
\* A capture that did not open reports 0 for every property.
ScaleCreateWriter ==
    /\ pc = "s_writer"
    /\ LET width == IF capture = "opened" THEN srcSize[1] ELSE 0
           height == IF capture = "opened" THEN srcSize[2] ELSE 0
           fps == IntFps(IF capture = "opened" THEN srcFps ELSE 0)
       IN writer' = [state |-> "open", fps |-> fps,
                     size |-> <<ScaledDim(width, scale), ScaledDim(height, scale)>>]
    /\ fs' = fs \cup {ScaleTempPath}
    /\ interp' = "cv2.INTER_CUBIC"
    /\ pc' = "s_read"
    /\ UNCHANGED <<stage, trace, exc, failedIn, exitCode, log, capture, clips,
                   inputVars, harnessVars, memVars, loopVars>>

\* lines 19-21: ret, frame = cap.read()
ScaleReadFrame ==
    /\ pc = "s_read"
    /\ IF capture = "opened" /\ readCount < srcFrames
       THEN /\ readCount' = readCount + 1
            /\ frame' = [idx |-> readCount + 1, size |-> srcSize, interp |-> "raw"]
            /\ pc' = "s_resize"
       ELSE /\ pc' = "s_release"
            /\ UNCHANGED <<readCount, frame>>
    /\ UNCHANGED <<stage, trace, exc, failedIn, exitCode, log, interp, capture,
                   writer, fs, clips, inputVars, harnessVars, memVars, written,
                   frame_counter>>

\* lines 24-27: resize to the scaled size with INTER_CUBIC and write
ScaleResizeWrite ==
    /\ pc = "s_resize"
    /\ \E libOk \in BOOLEAN :
         IF libOk
         THEN /\ written' = Append(written,
                    Resize(frame, <<ScaledDim(srcSize[1], scale),
                                    ScaledDim(srcSize[2], scale)>>, interp))
              /\ pc' = "s_read"
              /\ UNCHANGED <<exc, exitCode>>
         ELSE /\ Uncaught("cv2.error")
              /\ UNCHANGED written
    /\ UNCHANGED <<stage, trace, failedIn, log, interp, capture, writer, fs,
                   clips, inputVars, harnessVars, memVars, readCount, frame,
                   frame_counter>>

\* lines 30-31: cap.release(); out.release()
ScaleRelease ==
    /\ pc = "s_release"
    /\ capture' = "released"
    /\ writer' = [writer EXCEPT !.state = "released"]
    /\ pc' = "s_clips"
    /\ UNCHANGED <<stage, trace, exc, failedIn, exitCode, log, interp, fs,
                   clips, inputVars, harnessVars, memVars, loopVars>>

\* lines 34-39: open the source and the intermediate file with moviepy
ScaleOpenClips ==
    /\ pc = "s_clips"
    /\ \E libOk \in BOOLEAN :
         IF libOk /\ srcOpenable /\ ScaleTempPath \in fs
         THEN /\ clips' = clips \cup {"input_video", ScaleTempPath}
              /\ pc' = "s_write"
              /\ UNCHANGED <<exc, exitCode>>
         ELSE /\ Uncaught("Exception")
              /\ UNCHANGED clips
    /\ UNCHANGED <<stage, trace, failedIn, log, interp, capture, writer, fs,
                   inputVars, harnessVars, memVars, loopVars>>

\* lines 40-42: write the final file, print, and fall off the end of the script
ScaleWriteOutput ==
    /\ pc = "s_write"
    /\ \E libOk \in BOOLEAN :
         IF libOk
         THEN /\ fs' = fs \cup {OutputPath}
              /\ log' = Append(log, Entry("PRINT", "saved"))
              /\ pc' = "done"
              /\ exitCode' = 0
              /\ UNCHANGED exc
         ELSE /\ Uncaught("Exception")
              /\ UNCHANGED <<fs, log>>
    /\ UNCHANGED <<stage, trace, failedIn, interp, capture, writer, clips,
                   inputVars, harnessVars, memVars, loopVars>>

NextScale ==
    \/ ScaleOpenCapture
    \/ ScaleCreateWriter
    \/ ScaleReadFrame
    \/ ScaleResizeWrite
    \/ ScaleRelease
    \/ ScaleOpenClips
    \/ ScaleWriteOutput

SpecScale == InitScale /\ [][NextScale]_vars

----------------------------------------------------------------------------
(* Properties *)

IsPrefix(s, t) == Len(s) <= Len(t) /\ \A i \in 1..Len(s) : s[i] = t[i]

Handling == {"upscale_except", "audio_except", "main_except", "failed"}

StagesInOrder ==
    /\ IsPrefix(trace, StageOrder)
    /\ exitCode \in {-1, 0, 1}
    /\ (pc = "failed") <=> (exitCode = 1)
    /\ (pc = "done") <=> (exitCode = 0)
    /\ pc = "done" => stage = "Done" /\ trace = StageOrder
    /\ pc = "failed" => stage = "Failed"

\* C1 as stated: the stages run in order, each at most once; a failure in ANY
\* stage sends the run to Failed (exit code 1) with no later stage started; exit
\* code 0 only at Done.
C1_Original ==
    /\ StagesInOrder
    /\ failedIn # "none" =>
          /\ pc \in Handling
          /\ trace[Len(trace)] = failedIn
          /\ exitCode # 0

\* C1 amended: the stages run in order, each at most once; a failure while
\* configuring, resampling or reattaching sends the run to Failed (exit code 1)
\* with no later stage started; an error raised while cleaning up is logged and
\* swallowed, and the run still ends Done with exit code 0; exit code 0 only at
\* Done.
C1_StageOrder ==
    /\ StagesInOrder
    /\ failedIn \in {"Configured", "Resampling", "Reattaching"} =>
          /\ pc \in Handling
          /\ trace[Len(trace)] = failedIn
          /\ exitCode # 0
    /\ failedIn = "CleaningUp" =>
          /\ pc \in {"main_return", "done"}
          /\ exc = "none"
          /\ exitCode # 1

C1_Witness ==
    /\ pc = "done"
    /\ exitCode = 0
    /\ trace = StageOrder
    /\ failedIn = "CleaningUp"

\* C2: with an input the capture cannot open, upscale_video fails before the
\* writer exists: no intermediate file is created or written, no frame is read,
\* and the run is on its way to Failed.
C2_UnreadableInput ==
    (~srcOpenable /\ capture # "none") =>
        /\ capture = "not_opened"
        /\ writer = NoWriter
        /\ fs = fs0
        /\ readCount = 0
        /\ written = << >>
        /\ pc \in {"upscale_except", "main_except", "failed"}
        /\ exitCode # 0

C2_Witness ==
    /\ ~srcOpenable
    /\ capture = "not_opened"
    /\ pc = "failed"
    /\ exitCode = 1

SampledLow == mem.total > 0 /\ 10 * mem.available < mem.total

\* C3: once a memory check has sampled less than 10% of total memory available,
\* MemoryError is in flight, no further frame is read, resized or written,
\* Reattaching and CleaningUp never start, and the run ends Failed, exit code 1.
C3_LowMemoryAborts ==
    SampledLow =>
        /\ exc = "MemoryError"
        /\ pc \in {"upscale_except", "main_except", "failed"}
        /\ readCount = mem.frames
        /\ Len(written) = mem.frames
        /\ frame_counter = mem.frames
        /\ trace = <<"Configured", "Resampling">>
        /\ clips = {}
        /\ calls = 0
        /\ exitCode # 0

C3_Witness ==
    /\ SampledLow
    /\ mem.frames < srcFrames
    /\ pc = "failed"
    /\ exitCode = 1

\* C4: when upscale_video has completed without error on a source of N frames,
\* exactly N frames were written, frame i being source frame i resized to the
\* target resolution with the configured kernel, and the writer was opened with
\* that resolution and the source's frame rate.
C4_AllFramesResized ==
    writer.state = "released" =>
        /\ Len(written) = srcFrames
        /\ \A i \in 1..Len(written) :
              written[i] = [idx |-> i, size |-> target, interp |-> interp]
        /\ writer.size = target
        /\ writer.fps = srcFps

C4_Witness ==
    /\ writer.state = "released"
    /\ srcFrames >= 2
    /\ Len(written) = srcFrames
    /\ srcSize # target

\* C5 as stated: at Done the intermediate file is gone; at Failed after the
\* intermediate file was created it is still there and cleanup was never called.
C5_Original ==
    /\ pc = "done" => TempPath \notin fs
    /\ (pc = "failed" /\ writer.state # "none") =>
          TempPath \in fs /\ calls = 0

\* C5 amended: at Done the intermediate file is gone unless os.remove raised
\* during cleanup, in which case it is still there; at Failed after the
\* intermediate file was created it is still there and cleanup was never called.
C5_TempFileFate ==
    /\ (pc = "done" /\ last.outcome # "exception") => TempPath \notin fs
    /\ (pc = "done" /\ last.outcome = "exception") => TempPath \in fs
    /\ pc = "done" => calls = 1 /\ last.path = TempPath /\ TempPath \in last.before
    /\ (pc = "failed" /\ writer.state # "none") =>
          TempPath \in fs /\ calls = 0

C5_Witness ==
    /\ pc = "done"
    /\ last.outcome = "removed"
    /\ TempPath \in last.before
    /\ TempPath \notin fs

LastLevel == log[Len(log)].level

\* C6 as stated: cleanup_temp_file never raises; after a call the file is absent;
\* a call with the file absent only warns and changes nothing; a repeated call
\* leaves the state of the first call.
C6_Original ==
    calls > 0 =>
        /\ exc = "none"
        /\ last.path \notin fs
        /\ last.path \notin last.before =>
              last.outcome = "warning" /\ fs = last.before
        /\ prev.path = last.path => fs = last.before

\* C6 amended: cleanup_temp_file never raises. With the file present it calls
\* os.remove: the file is gone if that succeeds; if it raises, the error is
\* logged and swallowed and the file stays. With the file absent it only logs a
\* warning and changes nothing. No other path is touched. Once a call has left
\* the file absent, a repeated call only warns and changes nothing.
C6_CleanupContract ==
    calls > 0 =>
        /\ exc = "none"
        /\ pc = "harness"
        /\ last.outcome = "removed" =>
              /\ last.path \in last.before
              /\ fs = last.before \ {last.path}
              /\ LastLevel = "INFO"
        /\ last.outcome = "exception" =>
              /\ last.path \in last.before
              /\ fs = last.before
              /\ LastLevel = "ERROR"
        /\ last.outcome = "warning" =>
              /\ last.path \notin last.before
              /\ fs = last.before
              /\ LastLevel = "WARNING"
        /\ last.path \notin last.before => last.outcome = "warning"
        /\ (prev.path = last.path /\ prev.outcome \in {"removed", "warning"}) =>
              last.outcome = "warning" /\ fs = last.before

C6_Witness ==
    /\ calls >= 2
    /\ prev.path = last.path
    /\ prev.outcome = "removed"
    /\ last.outcome = "warning"
    /\ last.path \notin fs

ConfigError == cfgFile # "ok" \/ method \notin ValidMethods

\* C7: a missing or unparsable configuration file, or an interpolation name
\* outside the four known ones, aborts before any video I/O: the source is never
\* opened, no intermediate or output file is created, and the run ends Failed.
C7_ConfigErrorAborts ==
    ConfigError =>
        /\ capture = "none"
        /\ writer = NoWriter
        /\ clips = {}
        /\ fs = fs0
        /\ readCount = 0
        /\ trace = <<"Configured">>
        /\ pc \in {"load_config", "configure_logging",
                   "get_interpolation_method", "main_except", "failed"}
        /\ exitCode # 0

C7_Witness ==
    /\ cfgFile = "ok"
    /\ method \notin ValidMethods
    /\ pc = "failed"
    /\ exitCode = 1

\* C8: in upscale_video_with_audio, for an opened source of N frames at W x H
\* and frame rate F and scale factor s (W*s and H*s whole numbers), the writer
\* was opened with size (W*s, H*s) and frame rate F, and exactly N frames were
\* written, each of that size.
C8_ScaleFactorPipeline ==
    (writer.state = "released" /\ srcOpenable
       /\ (srcSize[1] * scale) % 2 = 0 /\ (srcSize[2] * scale) % 2 = 0) =>
        /\ 2 * writer.size[1] = srcSize[1] * scale
        /\ 2 * writer.size[2] = srcSize[2] * scale
        /\ writer.fps = srcFps
        /\ Len(written) = srcFrames
        /\ \A i \in 1..Len(written) :
              written[i].idx = i /\ written[i].size = writer.size

\* C9: check_memory_limit runs exactly when the count of frames written is a
\* positive multiple of chunk_size, gc.collect follows every check that passes,
\* a complete run over N frames makes N div chunk_size checks, and an abort on
\* low memory happens at a positive multiple of chunk_size.
C9_PeriodicCheck ==
    /\ pc = "check_memory" =>
          /\ frame_counter > 0
          /\ frame_counter % chunk_size = 0
          /\ memChecks = (frame_counter \div chunk_size) - 1
    /\ pc # "check_memory" => memChecks = frame_counter \div chunk_size
    /\ gcCalls = IF exc = "MemoryError" THEN memChecks - 1 ELSE memChecks
    /\ memChecks > 0 => mem.frames > 0 /\ mem.frames % chunk_size = 0
    /\ writer.state = "released" => memChecks = srcFrames \div chunk_size
    /\ exc = "MemoryError" =>
          frame_counter > 0 /\ frame_counter % chunk_size = 0

C9_Witness ==
    /\ writer.state = "released"
    /\ chunk_size > 1
    /\ srcFrames % chunk_size # 0
    /\ memChecks >= 1

\* C10: whenever the run is in Reattaching, and whenever moviepy holds the
\* intermediate file open, the capture and the writer have been released and
\* every source frame has been written.
C10_ReleasedBeforeReattach ==
    (stage = "Reattaching" \/ TempPath \in clips) =>
        /\ capture = "released"
        /\ writer.state = "released"
        /\ Len(written) = srcFrames

C10_Witness ==
    /\ TempPath \in clips
    /\ stage = "Reattaching"
    /\ srcFrames > 0

====
